---- MODULE Spec2Model ----
(***************************************************************************)
(* Verification model of the mitten / Enviducate repository.               *)
(*                                                                         *)
(*  - backend/scripts/simple_geojson_converter.js:                         *)
(*      extractCoordinates, sampleCoordinates                              *)
(*  - frontend/src/server/api/routers/environmental.ts:                    *)
(*      processWithGemini, processQuery, generateVisualizations,           *)
(*      generateSingleVisualization and the module-level mock datasets     *)
(*                                                                         *)
(*  - frontend/src/app/api/environmental/route.ts and                      *)
(*    frontend/src/app/api/environmental/process-query/route.ts:           *)
(*      the two POST handlers that forward a query to the FastAPI service  *)
(*  - frontend/src/app/app/page.tsx:                                       *)
(*      SearchInterface and AppPage, the search page of the application    *)
(*                                                                         *)
(* The specifications that share the module:                               *)
(*   SpecSample   sampleCoordinates applied to bounded inputs              *)
(*   SpecExtract  extractCoordinates applied to bounded feature collections*)
(*   SpecClassify processWithGemini's categorisation of bounded queries    *)
(*   Spec         the tRPC router: concurrent processQuery requests        *)
(*   SpecStamps   the tRPC router with the wall clock its results read     *)
(*   SpecConvert  the converter script: extract, sample, write             *)
(*   SpecProxy    the two proxy routes and the upstream service            *)
(*   SpecOptions  the tRPC router called with category and timeRange       *)
(*   SpecShare    the tRPC router with getSharedResult                     *)
(*   SpecPage     the application page: searches, results, back to search  *)
(*                                                                         *)
(* Numbers that are floating point in the source are kept as fixed-point   *)
(* integers: pinpoint values and metric changes in tenths, intensities in  *)
(* tenths, mock latitudes/longitudes in 1e-4 degrees.                      *)
(***************************************************************************)
EXTENDS Integers, Sequences, FiniteSets, TLC

VARIABLES
    \* ---- simple_geojson_converter.js: sampleCoordinates ----
    coords,            \* argument coords
    n,                 \* argument n (the budget)
    sampled,           \* the returned array
    spc,               \* "idle" | "input" | "done"
    \* ---- simple_geojson_converter.js: extractCoordinates ----
    geojson,           \* argument geojson (its features array)
    allCoords,         \* the returned array
    epc,               \* "idle" | "input" | "done"
    \* ---- environmental.ts ----
    mockPinpointData,  \* module-level const mockPinpointData
    mockHeatmapData,   \* module-level const mockHeatmapData (random at load)
    mockNumbersData,   \* module-level const mockNumbersData
    req,               \* the processQuery invocations, by request slot
    geminiCalls,       \* number of processWithGemini invocations, per query
    vizCalls,          \* number of generateVisualizations invocations, per query
    \* ---- environmental.ts: processWithGemini on its own ----
    gquery,            \* argument query
    gcategory,         \* the category it returns
    gpc,               \* "idle" | "input" | "done"
    \* ---- simple_geojson_converter.js: the script body ----
    output,            \* what fs.writeFileSync has written, if anything
    \* ---- app/api/environmental/**/route.ts ----
    preq,              \* the POST invocations of the two proxy routes
    \* ---- environmental.ts: the wall clock processQuery reads ----
    now,               \* the value Date.now() returns
    stamps,            \* id and shareableUrl of each result
    \* ---- environmental.ts: getSharedResult ----
    shared,            \* what the last getSharedResult call returned
    \* ---- app/app/page.tsx: SearchInterface and AppPage ----
    squery,            \* SearchInterface: useState("") query
    isLoading,         \* SearchInterface: processQuery.isLoading
    queryError,        \* SearchInterface: processQuery.error
    inflight,          \* whether callFastAPI awaits its request
    searches,          \* number of callFastAPI invocations so far
    results,           \* AppPage: useState(null) results
    isSearching,       \* AppPage: useState(false) isSearching
    showResults        \* AppPage: useState(false) showResults

sampleVars  == <<coords, n, sampled, spc>>
extractVars == <<geojson, allCoords, epc>>
routerVars  == <<mockPinpointData, mockHeatmapData, mockNumbersData,
                 req, geminiCalls, vizCalls>>
geminiVars  == <<gquery, gcategory, gpc>>
convertVars == <<output>>
proxyVars   == <<preq>>
clockVars   == <<now, stamps>>
shareVars   == <<shared>>
searchVars  == <<squery, isLoading, queryError, inflight, searches>>
pageVars    == <<results, isSearching, showResults>>
vars == <<coords, n, sampled, spc, geojson, allCoords, epc,
          mockPinpointData, mockHeatmapData, mockNumbersData,
          req, geminiCalls, vizCalls, gquery, gcategory, gpc,
          output, preq, now, stamps, shared,
          squery, isLoading, queryError, inflight, searches,
          results, isSearching, showResults>>

Max(a, b) == IF a >= b THEN a ELSE b

Abs(x) == IF x < 0 THEN -x ELSE x

\* All sequences over S of length lo..hi.
SeqsBetween(S, lo, hi) == UNION {[1..k -> S] : k \in lo..hi}

(***************************************************************************)
(* The component states of the parts a specification does not exercise.    *)
(***************************************************************************)
SampleIdle ==
    /\ coords = <<>>
    /\ n = 0
    /\ sampled = <<>>
    /\ spc = "idle"

ExtractIdle ==
    /\ geojson = <<>>
    /\ allCoords = <<>>
    /\ epc = "idle"

RouterIdle ==
    /\ mockPinpointData = <<>>
    /\ mockHeatmapData = <<>>
    /\ mockNumbersData = <<>>
    /\ req = <<>>
    /\ geminiCalls = <<>>
    /\ vizCalls = <<>>

GeminiIdle ==
    /\ gquery = <<>>
    /\ gcategory = "none"
    /\ gpc = "idle"

\* Nothing has been written.
NoOutput == [written |-> FALSE]

ConvertIdle == output = NoOutput

ProxyIdle == preq = <<>>

ClockIdle ==
    /\ now = 0
    /\ stamps = <<>>

\* getSharedResult has not been called.
NotAsked == [asked |-> FALSE]

ShareIdle == shared = NotAsked

\* JavaScript null.
Null == [null |-> TRUE]

\* The page as it is first rendered.
PageIdle ==
    /\ squery = <<>>
    /\ isLoading = FALSE
    /\ queryError = Null
    /\ inflight = FALSE
    /\ searches = 0
    /\ results = Null
    /\ isSearching = FALSE
    /\ showResults = FALSE

(***************************************************************************)
(*                 CoordinateSampler: sampleCoordinates                    *)
(***************************************************************************)
\* Longest input array and largest budget the sampler is applied to.
MaxLen == 5
MaxBudget == 3

\* Points as extractCoordinates pushes them: { lat, lng, label }.
CoordPool ==
    { [lat |-> 2, lng |-> 1, label |-> "A"],
      [lat |-> 4, lng |-> 3, label |-> "A"],
      [lat |-> 6, lng |-> 5, label |-> "Unknown"] }

\* Bug variant of Step: rounds the quotient up instead of down.
StepCeil(len, budget) ==
    IF budget > 0 THEN Max((len + budget - 1) \div budget, 1) ELSE 1

\* const step = Math.max(Math.floor(coords.length / n), 1);
\* For n < 0 the quotient is <= 0 and the step is 1.  For n = 0 the quotient is
\* Infinity (NaN for an empty array); the loop's guard `sampled.length < n` is
\* then false before the first iteration, so the step is never used.
Step(len, budget) ==
    IF budget > 0 THEN Max(len \div budget, 1) ELSE 1

\* Bug variant of LoopGuard: stops one element before the budget is filled.
LoopGuardShort(i, len, count, budget) ==
    i < len /\ count < budget - 1

\* Bug variant of LoopGuard: the budget does not stop the loop.
LoopGuardNoBudget(i, len, count, budget) ==
    i < len

\* for (...; i < coords.length && sampled.length < n; ...)
LoopGuard(i, len, count, budget) ==
    i < len /\ count < budget

\* for (let i = 0; <guard>; i += step) { sampled.push(coords[i]); }
\* i is the 0-based JavaScript index; coords[i] is cs[i + 1] here.
RECURSIVE SampleLoop(_, _, _, _, _)
SampleLoop(cs, budget, step, i, acc) ==
    IF LoopGuard(i, Len(cs), Len(acc), budget)
    THEN SampleLoop(cs, budget, step, i + step, Append(acc, cs[i + 1]))
    ELSE acc

\* function sampleCoordinates(coords, n = 50)
sampleCoordinates(cs, budget) ==
    SampleLoop(cs, budget, Step(Len(cs), budget), 0, <<>>)

InitSample ==
    /\ coords \in SeqsBetween(CoordPool, 0, MaxLen)
    /\ n \in (-1)..MaxBudget
    /\ sampled = <<>>
    /\ spc = "input"
    /\ ExtractIdle
    /\ RouterIdle
    /\ GeminiIdle
    /\ ConvertIdle
    /\ ProxyIdle
    /\ ClockIdle
    /\ ShareIdle
    /\ PageIdle

\* const sampledCoords = sampleCoordinates(allCoords, n);
SampleCall ==
    /\ spc = "input"
    /\ sampled' = sampleCoordinates(coords, n)
    /\ spc' = "done"
    /\ UNCHANGED <<coords, n>>
    /\ UNCHANGED extractVars
    /\ UNCHANGED routerVars
    /\ UNCHANGED geminiVars
    /\ UNCHANGED <<convertVars, proxyVars, clockVars, shareVars, searchVars, pageVars>>

NextSample == SampleCall

SpecSample == InitSample /\ [][NextSample]_vars

\* C1: when the input is longer than the budget (budget >= 1) the sampler
\* returns exactly budget points, the i-th (from 0) being the input element at
\* index i * stride with stride = max(floor(len / budget), 1).
C1_StrideSample ==
    (spc = "done" /\ n >= 1 /\ Len(coords) > n) =>
        LET stride == Max(Len(coords) \div n, 1) IN
        /\ Len(sampled) = n
        /\ \A i \in 0..(n - 1) : sampled[i + 1] = coords[i * stride + 1]

\* A run of the sampler with stride 2 whose picks differ from a prefix.
C1_Witness ==
    /\ spc = "done"
    /\ n = 2
    /\ Len(coords) = 5
    /\ coords[3] # coords[2]
    /\ sampled = <<coords[1], coords[3]>>

\* C2: when the input is no longer than the budget (budget >= 1, the empty
\* input and len = budget included) the sampler returns the input itself.
C2_IdentitySample ==
    (spc = "done" /\ n >= 1 /\ Len(coords) <= n) => sampled = coords

\* A run of the sampler on an input exactly as long as the budget.
C2_Witness ==
    /\ spc = "done"
    /\ n = 3
    /\ Len(coords) = 3
    /\ coords[1] # coords[2]
    /\ sampled = coords

\* C22: when the input is longer than the budget (budget >= 1), fewer input
\* elements lie after the last selected element than the stride
\* max(floor(len / budget), 1): no tail longer than the regular gap is left
\* unsampled.  The last selected element is the one at 0-based index
\* (Len(sampled) - 1) * stride.
C22_TailShorterThanStride ==
    (spc = "done" /\ n >= 1 /\ Len(coords) > n) =>
        LET stride == Max(Len(coords) \div n, 1)
            last == (Len(sampled) - 1) * stride
        IN  (Len(coords) - 1) - last < stride

\* C15 as stated: a call of the sampler with a budget of zero or less fails,
\* that is, it never returns a sampled sequence.
C15_NonPositiveBudgetFails ==
    n <= 0 => spc # "done"

\* C15, as the code behaves: a call of the sampler with a budget of zero or
\* less returns normally, and what it returns is the empty sequence, whatever
\* the input.
C15_NonPositiveBudgetEmpty ==
    (spc = "done" /\ n <= 0) => sampled = <<>>

\* The sampler has returned from a call with a negative budget on a non-empty
\* input.
C15_Witness ==
    /\ spc = "done"
    /\ n < 0
    /\ Len(coords) >= 2
    /\ sampled = <<>>

(***************************************************************************)
(*                 GeometryExtractor: extractCoordinates                   *)
(***************************************************************************)
\* Largest number of features in a collection, and the largest number of
\* polygons per MultiPolygon, rings per polygon and vertices per ring.
MaxFeatures == 2
MaxPolys == 2
MaxRings == 2
MaxVerts == 2

GeometryTypes == {"Point", "Polygon", "MultiPolygon", "LineString"}

\* feature.properties: a bag of string properties.  A missing properties
\* object behaves as the empty bag under `feature.properties?.FieldName`.
NoProps == [k \in {} |-> ""]
PropsPool ==
    { NoProps,
      [FieldName |-> "Antrim"],
      [name |-> "Lake" ] }

\* The [lng, lat] pair of vertex c of ring b of polygon a of feature f.  Every
\* vertex of a collection has its own pair, and lng # lat in every pair.
Vertex(f, a, b, c) == <<1000 * f + 100 * a + 10 * b + c,
                        -(1000 * f + 100 * a + 10 * b + c)>>

\* Ring lengths: nv everywhere, or alternating nv and nv - 1 when ragged.
RingLen(a, b, nv, ragged) ==
    IF ragged /\ (a + b) % 2 = 1 THEN nv - 1 ELSE nv

MkRing(f, a, b, nv, ragged) ==
    [c \in 1..RingLen(a, b, nv, ragged) |-> Vertex(f, a, b, c)]

MkPolygon(f, a, nr, nv, ragged) ==
    [b \in 1..nr |-> MkRing(f, a, b, nv, ragged)]

\* geometry.coordinates of a geometry of the given type and dimensions.
MkCoordinates(type, f, np, nr, nv, ragged) ==
    CASE type = "Point"        -> Vertex(f, 0, 0, 0)
      [] type = "Polygon"      -> MkPolygon(f, 0, nr, nv, ragged)
      [] type = "MultiPolygon" -> [a \in 1..np |-> MkPolygon(f, a, nr, nv, ragged)]
      [] type = "LineString"   -> MkRing(f, 0, 0, nv, ragged)

MkFeature(type, props, f, np, nr, nv, ragged) ==
    [ properties |-> props,
      geometry |-> [ type |-> type,
                     coordinates |-> MkCoordinates(type, f, np, nr, nv, ragged) ] ]

\* The feature collections of at most maxFeatures features that
\* extractCoordinates is applied to.
FeatureCollections(maxFeatures) ==
    { [ features |-> [f \in 1..Len(shape) |->
                        MkFeature(shape[f][1], shape[f][2], f, np, nr, nv, ragged)] ] :
        shape \in SeqsBetween(GeometryTypes \X PropsPool, 0, maxFeatures),
        np \in 1..MaxPolys, nr \in 1..MaxRings, nv \in 1..MaxVerts,
        ragged \in BOOLEAN }

\* The geometry types extractCoordinates has a branch for.
SupportedTypes == {"Polygon", "MultiPolygon", "Point"}

\* Collections of three features with a LineString between two features of
\* supported types.
SandwichCollections ==
    { [ features |->
          << MkFeature(t1, [FieldName |-> "Antrim"], 1, np, nr, nv, ragged),
             MkFeature("LineString", [name |-> "Lake"], 2, np, nr, nv, ragged),
             MkFeature(t3, NoProps, 3, np, nr, nv, ragged) >> ] :
        t1 \in SupportedTypes, t3 \in SupportedTypes,
        np \in 1..MaxPolys, nr \in 1..MaxRings, nv \in 1..MaxVerts,
        ragged \in BOOLEAN }

\* Concatenation of a sequence of sequences, in order.
RECURSIVE Flatten(_)
Flatten(seqs) ==
    IF Len(seqs) = 0 THEN <<>>
    ELSE IF Len(seqs) = 1 THEN seqs[1]
    ELSE LET half == Len(seqs) \div 2
         IN  Flatten(SubSeq(seqs, 1, half)) \o Flatten(SubSeq(seqs, half + 1, Len(seqs)))

\* const label = feature.properties?.FieldName || "Unknown";
LabelOf(feature) ==
    IF "FieldName" \in DOMAIN feature.properties /\ feature.properties.FieldName # ""
    THEN feature.properties.FieldName
    ELSE "Unknown"

\* Bug variant of PushPoint: the pair is read as [lat, lng].
PushPointNoSwap(pair, label) ==
    [lat |-> pair[1], lng |-> pair[2], label |-> label]

\* ([lng, lat]) => { coords.push({ lat, lng, label }); }
PushPoint(pair, label) ==
    [lat |-> pair[2], lng |-> pair[1], label |-> label]

\* ring.forEach(([lng, lat]) => coords.push(...))
RingPoints(ring, label) ==
    [c \in 1..Len(ring) |-> PushPoint(ring[c], label)]

\* poly.forEach((ring) => ring.forEach(...))
PolygonPoints(rings, label) ==
    Flatten([b \in 1..Len(rings) |-> RingPoints(rings[b], label)])

\* geometry.coordinates.forEach((poly) => poly.forEach(...))
MultiPolygonPoints(polys, label) ==
    Flatten([a \in 1..Len(polys) |-> PolygonPoints(polys[a], label)])

\* Bug variant of FeaturePoints: a geometry of any other type is read as a
\* list of pairs.
FeaturePointsGuessing(feature) ==
    LET label == LabelOf(feature)
        geometry == feature.geometry
    IN  IF geometry.type = "Polygon"
        THEN PolygonPoints(geometry.coordinates, label)
        ELSE IF geometry.type = "MultiPolygon"
        THEN MultiPolygonPoints(geometry.coordinates, label)
        ELSE IF geometry.type = "Point"
        THEN <<PushPoint(geometry.coordinates, label)>>
        ELSE RingPoints(geometry.coordinates, label)

\* The body of geojson.features.forEach: the points one feature pushes.  A
\* geometry type matching none of the three branches pushes nothing.
FeaturePoints(feature) ==
    LET label == LabelOf(feature)
        geometry == feature.geometry
    IN  IF geometry.type = "Polygon"
        THEN PolygonPoints(geometry.coordinates, label)
        ELSE IF geometry.type = "MultiPolygon"
        THEN MultiPolygonPoints(geometry.coordinates, label)
        ELSE IF geometry.type = "Point"
        THEN <<PushPoint(geometry.coordinates, label)>>
        ELSE <<>>

\* Bug variant of extractCoordinates: the traversal ends at the first feature
\* whose geometry type has no branch.
extractCoordinatesStopping(gj) ==
    LET stops == { f \in 1..Len(gj.features) :
                     gj.features[f].geometry.type \notin SupportedTypes }
        last == IF stops = {} THEN Len(gj.features)
                ELSE (CHOOSE f \in stops : \A h \in stops : f <= h) - 1
    IN  Flatten([f \in 1..last |-> FeaturePoints(gj.features[f])])

\* function extractCoordinates(geojson)
extractCoordinates(gj) ==
    Flatten([f \in 1..Len(gj.features) |-> FeaturePoints(gj.features[f])])

InitExtract ==
    /\ geojson \in FeatureCollections(MaxFeatures) \cup SandwichCollections
    /\ allCoords = <<>>
    /\ epc = "input"
    /\ SampleIdle
    /\ RouterIdle
    /\ GeminiIdle
    /\ ConvertIdle
    /\ ProxyIdle
    /\ ClockIdle
    /\ ShareIdle
    /\ PageIdle

\* const allCoords = extractCoordinates(geojson);
ExtractCall ==
    /\ epc = "input"
    /\ allCoords' = extractCoordinates(geojson)
    /\ epc' = "done"
    /\ UNCHANGED geojson
    /\ UNCHANGED sampleVars
    /\ UNCHANGED routerVars
    /\ UNCHANGED geminiVars
    /\ UNCHANGED <<convertVars, proxyVars, clockVars, shareVars, searchVars, pageVars>>

NextExtract == ExtractCall

SpecExtract == InitExtract /\ [][NextExtract]_vars

\* Sum of a sequence of integers.
RECURSIVE SumSeq(_)
SumSeq(s) == IF s = <<>> THEN 0 ELSE Head(s) + SumSeq(Tail(s))

\* Vertex counts of the input, read off the input's own nesting.
PolyCount(rings) == SumSeq([b \in 1..Len(rings) |-> Len(rings[b])])
GeomCount(g) ==
    CASE g.type = "Point"        -> 1
      [] g.type = "Polygon"      -> PolyCount(g.coordinates)
      [] g.type = "MultiPolygon" ->
            SumSeq([a \in 1..Len(g.coordinates) |-> PolyCount(g.coordinates[a])])
      [] OTHER                   -> 0

\* Number of points due before feature f, before polygon a of a polygon list,
\* and before ring b of a ring list (traversal order: feature, polygon, ring).
FeatureOffset(f) ==
    SumSeq([j \in 1..(f - 1) |-> GeomCount(geojson.features[j].geometry)])
PolyOffset(polys, a) == SumSeq([j \in 1..(a - 1) |-> PolyCount(polys[j])])
RingOffset(rings, b) == SumSeq([j \in 1..(b - 1) |-> Len(rings[j])])

\* The emitted point at 1-based position i is the swap of the input pair.
SwappedAt(i, pair) ==
    /\ i \in 1..Len(allCoords)
    /\ allCoords[i].lat = pair[2]
    /\ allCoords[i].lng = pair[1]

RingInOrder(ring, off) ==
    \A c \in 1..Len(ring) : SwappedAt(off + c, ring[c])
PolygonInOrder(rings, off) ==
    \A b \in 1..Len(rings) : RingInOrder(rings[b], off + RingOffset(rings, b))

\* A MultiPolygon of k polygons, each of m rings, each of v vertices.
IsUniformMulti(g, k, m, v) ==
    /\ g.type = "MultiPolygon"
    /\ Len(g.coordinates) = k
    /\ \A a \in 1..k :
        /\ Len(g.coordinates[a]) = m
        /\ \A b \in 1..m : Len(g.coordinates[a][b]) = v

\* C3: extract emits exactly one point per input vertex, in traversal order
\* (feature, polygon, ring, vertex): one for a Point, every vertex of every
\* ring for a Polygon, every vertex of every ring of every polygon for a
\* MultiPolygon (k*m*n for k polygons of m rings of n vertices), each with
\* lat = second and lng = first component of the input pair.
C3_ExtractAll ==
    epc = "done" =>
        /\ Len(allCoords) = FeatureOffset(Len(geojson.features) + 1)
        /\ \A f \in 1..Len(geojson.features) :
            LET g == geojson.features[f].geometry
                off == FeatureOffset(f)
            IN  /\ g.type = "Point" => SwappedAt(off + 1, g.coordinates)
                /\ g.type = "Polygon" => PolygonInOrder(g.coordinates, off)
                /\ g.type = "MultiPolygon" =>
                     \A a \in 1..Len(g.coordinates) :
                        PolygonInOrder(g.coordinates[a],
                                       off + PolyOffset(g.coordinates, a))
        /\ \A k \in 1..MaxPolys, m \in 1..MaxRings, v \in 1..MaxVerts :
             ( /\ Len(geojson.features) = 1
               /\ IsUniformMulti(geojson.features[1].geometry, k, m, v) )
             => Len(allCoords) = k * m * v

\* An extraction of a Polygon followed by a 2 x 2 x 2 MultiPolygon: eight
\* points come from the MultiPolygon, the last one from its last vertex.
C3_Witness ==
    /\ epc = "done"
    /\ Len(geojson.features) = 2
    /\ geojson.features[1].geometry.type = "Polygon"
    /\ IsUniformMulti(geojson.features[2].geometry, 2, 2, 2)
    /\ Len(allCoords) = FeatureOffset(2) + 8
    /\ FeatureOffset(2) > 0
    /\ allCoords[Len(allCoords)].lng = Vertex(2, 2, 2, 2)[1]
    /\ allCoords[Len(allCoords)].lat = Vertex(2, 2, 2, 2)[2]

\* The feature a point was emitted for, read off the point's longitude (see
\* Vertex).
FeatureOfPoint(pt) == pt.lng \div 1000

\* The positions of the output that hold a point of feature f.
PositionsOf(f) ==
    { i \in 1..Len(allCoords) : FeatureOfPoint(allCoords[i]) = f }

IsSupported(feature) == feature.geometry.type \in SupportedTypes

\* The features of the input whose geometry type has no branch.
UnsupportedFeatures ==
    { f \in 1..Len(geojson.features) : ~IsSupported(geojson.features[f]) }

\* C16 as stated: an extraction given a feature of an unsupported geometry
\* type fails, that is, it never returns a point sequence.
C16_UnsupportedFails ==
    UnsupportedFeatures # {} => epc # "done"

\* C16, as the code behaves: an extraction given a feature of an unsupported
\* geometry type returns normally, and the feature is skipped without any
\* error: no point of the output was read from its coordinates.
C16_UnsupportedSkipped ==
    (epc = "done" /\ UnsupportedFeatures # {}) =>
        \A f \in UnsupportedFeatures : PositionsOf(f) = {}

\* An extraction of a collection holding only a LineString of two vertices
\* has returned, with nothing in its output.
C16_Witness ==
    /\ epc = "done"
    /\ Len(geojson.features) = 1
    /\ geojson.features[1].geometry.type = "LineString"
    /\ Len(geojson.features[1].geometry.coordinates) = 2
    /\ allCoords = <<>>

\* C17: an unsupported feature does not abort the extraction of the others.
\* The output holds, feature after feature in input order, every point of
\* every supported feature and no point of an unsupported one; it is the
\* output for the same collection without its unsupported features.
C17_OthersStillEmitted ==
    epc = "done" =>
        /\ \A f \in 1..Len(geojson.features) :
              Cardinality(PositionsOf(f)) =
                  IF IsSupported(geojson.features[f])
                  THEN GeomCount(geojson.features[f].geometry)
                  ELSE 0
        /\ \A i \in 1..Len(allCoords), j \in 1..Len(allCoords) :
              i < j => FeatureOfPoint(allCoords[i]) <= FeatureOfPoint(allCoords[j])
        /\ allCoords =
              extractCoordinates([features |->
                                    SelectSeq(geojson.features, IsSupported)])

\* An extraction of a Polygon, a LineString and a Point, in that order: the
\* output holds the polygon's points and then the point's.
C17_Witness ==
    /\ epc = "done"
    /\ Len(geojson.features) = 3
    /\ geojson.features[1].geometry.type = "Polygon"
    /\ geojson.features[2].geometry.type = "LineString"
    /\ geojson.features[3].geometry.type = "Point"
    /\ Len(allCoords) >= 2
    /\ FeatureOfPoint(allCoords[1]) = 1
    /\ FeatureOfPoint(allCoords[Len(allCoords)]) = 3

\* README, "Property mapping": the label is the FieldName property, else the
\* name property, else "Unknown".
LabelByPrecedence(feature) ==
    IF "FieldName" \in DOMAIN feature.properties /\ feature.properties.FieldName # ""
    THEN feature.properties.FieldName
    ELSE IF "name" \in DOMAIN feature.properties /\ feature.properties.name # ""
    THEN feature.properties.name
    ELSE "Unknown"

\* C18: every point emitted for a feature carries that feature's label, which
\* is its FieldName property if present, else its name property if present,
\* else "Unknown".
C18_LabelPrecedence ==
    epc = "done" =>
        \A f \in 1..Len(geojson.features) :
            \A i \in PositionsOf(f) :
                allCoords[i].label = LabelByPrecedence(geojson.features[f])

(***************************************************************************)
(*            QueryClassifier: processWithGemini (environmental.ts)        *)
(***************************************************************************)
\* A query string is the sequence of its characters.
\* Largest number of fragments a query is put together from.
MaxWords == 3

UpperCase == <<"A", "B", "C", "D", "E", "F", "G", "H", "I", "J", "K", "L", "M",
               "N", "O", "P", "Q", "R", "S", "T", "U", "V", "W", "X", "Y", "Z">>
LowerCase == <<"a", "b", "c", "d", "e", "f", "g", "h", "i", "j", "k", "l", "m",
               "n", "o", "p", "q", "r", "s", "t", "u", "v", "w", "x", "y", "z">>

\* String.prototype.toLowerCase, one character: A-Z go to a-z, the rest stay.
LowerChar(c) ==
    IF \E k \in 1..26 : UpperCase[k] = c
    THEN LowerCase[CHOOSE k \in 1..26 : UpperCase[k] = c]
    ELSE c

\* query.toLowerCase()
toLowerCase(str) == [k \in 1..Len(str) |-> LowerChar(str[k])]

\* str.includes(sub): sub occurs in str as a contiguous run.
includes(str, sub) ==
    \E k \in 1..(Len(str) - Len(sub) + 1) :
        SubSeq(str, k, k + Len(sub) - 1) = sub

KwForest ==
    <<"f", "o", "r", "e", "s", "t">>
KwDeforest ==
    <<"d", "e", "f", "o", "r", "e", "s", "t">>
KwFire ==
    <<"f", "i", "r", "e">>
KwWildfire ==
    <<"w", "i", "l", "d", "f", "i", "r", "e">>

Categories == {"deforestation", "biodiversity", "wildfire"}

\* Bug variant of Categorize: the fire rule is tried before the forest rule.
CategorizeFireFirst(query) ==
    IF includes(toLowerCase(query), KwFire)
       \/ includes(toLowerCase(query), KwWildfire)
    THEN "wildfire"
    ELSE IF includes(toLowerCase(query), KwForest)
            \/ includes(toLowerCase(query), KwDeforest)
    THEN "deforestation"
    ELSE "biodiversity"

\* let category = "biodiversity"; if (...) category = "deforestation";
\* else if (...) category = "wildfire";
Categorize(query) ==
    IF includes(toLowerCase(query), KwForest)
       \/ includes(toLowerCase(query), KwDeforest)
    THEN "deforestation"
    ELSE IF includes(toLowerCase(query), KwFire)
            \/ includes(toLowerCase(query), KwWildfire)
    THEN "wildfire"
    ELSE "biodiversity"

\* Fragments queries are put together from; keywords also arise across the
\* joints ("for" + "est", "de" + "Forest", "wild" + "FIRE").
Fragments ==
    { <<"f", "o", "r">>, <<"e", "s", "t">>, <<"F", "o", "r", "e", "s", "t">>,
      <<"d", "e">>, <<"w", "i", "l", "d">>, <<"F", "I", "R", "E">>,
      <<"f", "i", "r", "e">>, <<" ", "i", "n", " ">> }

ClassifierQueries(maxWords) ==
    { Flatten(fs) : fs \in SeqsBetween(Fragments, 0, maxWords) }

InitClassify ==
    /\ gquery \in ClassifierQueries(MaxWords)
    /\ gcategory = "none"
    /\ gpc = "input"
    /\ SampleIdle
    /\ ExtractIdle
    /\ RouterIdle
    /\ ConvertIdle
    /\ ProxyIdle
    /\ ClockIdle
    /\ ShareIdle
    /\ PageIdle

\* processWithGemini(query): after the simulated delay, the category.
GeminiCall ==
    /\ gpc = "input"
    /\ gcategory' = Categorize(gquery)
    /\ gpc' = "done"
    /\ UNCHANGED gquery
    /\ UNCHANGED sampleVars
    /\ UNCHANGED extractVars
    /\ UNCHANGED routerVars
    /\ UNCHANGED <<convertVars, proxyVars, clockVars, shareVars, searchVars, pageVars>>

NextClassify == GeminiCall

SpecClassify == InitClassify /\ [][NextClassify]_vars

\* Letter-case variants of a query: all upper case, all lower case, and the
\* first letter's case flipped.
UpperChar(c) ==
    IF \E k \in 1..26 : LowerCase[k] = c
    THEN UpperCase[CHOOSE k \in 1..26 : LowerCase[k] = c]
    ELSE c
FlipChar(c) == IF UpperChar(c) = c THEN LowerChar(c) ELSE UpperChar(c)
CaseVariants(q) ==
    { [k \in 1..Len(q) |-> UpperChar(q[k])],
      [k \in 1..Len(q) |-> LowerChar(q[k])],
      [k \in 1..Len(q) |-> IF k = 1 THEN FlipChar(q[k]) ELSE q[k]] }

\* The keyword occurs in the query, whatever the case of the letters.
Mentions(q, kw) ==
    \E k \in 1..(Len(q) - Len(kw) + 1) :
        \A j \in 1..Len(kw) : LowerChar(q[k + j - 1]) = kw[j]

\* C4: classification applies the ordered rules to the lowercased query and
\* the first match wins: deforestation when it contains "forest" (or
\* "deforest"), otherwise wildfire when it contains "fire", otherwise
\* biodiversity; a query with both "forest" and "fire" is deforestation, and
\* every letter-case variant of a query gets the same category.
C4_OrderedRules ==
    gpc = "done" =>
        /\ gcategory = ( IF Mentions(gquery, KwForest) THEN "deforestation"
                         ELSE IF Mentions(gquery, KwFire) THEN "wildfire"
                         ELSE "biodiversity" )
        /\ (Mentions(gquery, KwForest) /\ Mentions(gquery, KwFire))
              => gcategory = "deforestation"
        /\ \A v \in CaseVariants(gquery) : Categorize(v) = gcategory

\* A classified query with "fire" before "forest" and mixed case.
C4_Witness ==
    /\ gpc = "done"
    /\ gquery = <<"w", "i", "l", "d", "F", "I", "R", "E", "F", "o", "r", "e", "s", "t">>
    /\ gcategory = "deforestation"

(***************************************************************************)
(*                  The tRPC router (environmental.ts)                     *)
(***************************************************************************)
\* Largest number of processQuery requests issued, and the number of cells of
\* the heatmap grid that is modelled (the source builds 100).
MaxReq == 2
HeatLen == 2

\* ---- module-level mock datasets ----------------------------------------
\* const mockPinpointData = [...]  (lat/lng in 1e-4 degrees, value in tenths)
MockPinpointInit ==
    << [lat |-> 465547, lng |-> -843675, name |-> "Tahquamenon Falls State Park",
        value |-> 850, severity |-> "low"],
       [lat |-> 450218, lng |-> -835539, name |-> "Huron-Manistee Forest",
        value |-> 650, severity |-> "medium"],
       [lat |-> 469059, lng |-> -885498, name |-> "Copper Harbor",
        value |-> 400, severity |-> "high"],
       [lat |-> 424072, lng |-> -839424, name |-> "Detroit River",
        value |-> 750, severity |-> "medium"],
       [lat |-> 443106, lng |-> -856027, name |-> "Traverse City Bay",
        value |-> 900, severity |-> "low"] >>

\* What one grid cell's two Math.random() draws may give: intensity in [0, 1)
\* (tenths) and value = Math.floor(Math.random() * 100).
RandomDraws ==
    { [intensity |-> 0, value |-> 0],
      [intensity |-> 3, value |-> 42] }

\* Array.from({ length }, (_, i) => ({ lat, lng, intensity, value })) for the
\* 0-based index i = k - 1; lat and lng in tenths of a degree.
HeatCell(k, draw) ==
    [ lat |-> 410 + ((k - 1) % 10) * 7,
      lng |-> -900 + ((k - 1) \div 10) * 8,
      intensity |-> draw.intensity,
      value |-> draw.value ]

\* const mockHeatmapData = {...}: the datasets module load may produce, for a
\* grid of the given length.
MockHeatmapInits(length) ==
    { [ bounds |-> [north |-> 480, south |-> 410, east |-> -820, west |-> -900],
        gridSize |-> 10,
        data |-> [k \in 1..length |-> HeatCell(k, draws[k])] ] :
      draws \in [1..length -> RandomDraws] }

\* const mockNumbersData = {...}  (percentageChange and change in tenths)
MockNumbersInit ==
    [ totalAffectedArea |-> 1250000,
      percentageChange |-> -125,
      timeframe |-> "2017-2024",
      keyMetrics |->
        << [label |-> "Forest Coverage", value |-> "52.1%", change |-> -23],
           [label |-> "Wetland Area", value |-> "11.2M acres", change |-> -8],
           [label |-> "Species Count", value |-> "2,847", change |-> 12],
           [label |-> "Protected Areas", value |-> "102", change |-> 30] >> ]

\* ---- processWithGemini --------------------------------------------------
\* const mockResponses = {...}: summary (its opening words), sources, and
\* charities (their names).
mockResponses ==
    [ deforestation |->
        [ summary |-> "Michigan's Upper Peninsula has experienced a 12.5% reduction in forest coverage from 2017-2024 ...",
          sources |-> <<"Michigan DNR Forest Report 2024", "USFS Upper Peninsula Survey",
                        "Michigan Environmental Council">>,
          charities |-> <<"Michigan Forest Association", "Trees for Tomorrow",
                          "Great Lakes Forest Alliance">> ],
      biodiversity |->
        [ summary |-> "Michigan's Great Lakes wetlands support over 2,800 species ...",
          sources |-> <<"Michigan DNR Wildlife Survey 2024", "Great Lakes Biodiversity Report",
                        "Audubon Michigan">>,
          charities |-> <<"Ducks Unlimited", "Great Lakes Protection Fund",
                          "Michigan Audubon">> ],
      wildfire |->
        [ summary |-> "Michigan's Upper Peninsula faces moderate wildfire risk ...",
          sources |-> <<"Michigan DNR Fire Division", "National Interagency Fire Center",
                        "Michigan State Climatology Office">>,
          charities |-> <<"Michigan Forest Fire Prevention", "Wildfire Recovery Fund",
                          "Forest Service Foundation">> ] ]

\* return { category, ...mockResponses[category] };
processWithGemini(query) ==
    LET category == Categorize(query) IN
    [ category |-> category,
      summary |-> mockResponses[category].summary,
      sources |-> mockResponses[category].sources,
      charities |-> mockResponses[category].charities ]

\* ---- generateSingleVisualization ----------------------------------------
\* const metadata = {...}  (lastUpdated, a wall-clock stamp, is not kept)
metadata ==
    [ deforestation |->
        [ title |-> "Forest Coverage Changes",
          description |-> "Areas of significant forest loss and recovery in Michigan",
          source |-> "Michigan DNR, USFS" ],
      biodiversity |->
        [ title |-> "Biodiversity Hotspots",
          description |-> "Species-rich areas and conservation priorities",
          source |-> "Michigan DNR Wildlife Division" ],
      wildfire |->
        [ title |-> "Wildfire Risk Assessment",
          description |-> "Fire danger zones and prevention areas",
          source |-> "Michigan DNR Fire Division" ] ]

\* Bug variant of PinpointValue: every category is dampened.
PinpointValueAlways(category, value) == (value * 6) \div 10

\* value: category === "wildfire" ? point.value * 0.6 : point.value
\* (tenths; the mock values are whole numbers, so the product is exact)
PinpointValue(category, value) ==
    IF category = "wildfire" THEN (value * 6) \div 10 ELSE value

\* Bug variant of HeatIntensity: the inversion is keyed on the wrong category.
HeatIntensityWrong(category, intensity) ==
    IF category = "wildfire" THEN 10 - intensity ELSE intensity

\* intensity: category === "deforestation" ? 1 - cell.intensity : cell.intensity
HeatIntensity(category, intensity) ==
    IF category = "deforestation" THEN 10 - intensity ELSE intensity

\* Bug variant of MetricChange: the sign is kept for every category.
MetricChangeSigned(category, change) == change

\* change: category === "wildfire" ? Math.abs(metric.change) : metric.change
MetricChange(category, change) ==
    IF category = "wildfire" THEN Abs(change) ELSE change

\* Bug variant of generateSingleVisualization: a point of a dampened value is
\* given the severity "high", and the heatmap's cells lose their value.
generateSingleVisualizationReframed(type, category) ==
    CASE type = "pinpoints" ->
           [ type |-> "pinpoints",
             data |-> [k \in 1..Len(mockPinpointData) |->
                         [mockPinpointData[k] EXCEPT
                            !.value = PinpointValue(category, @),
                            !.severity = IF category = "wildfire" THEN "high" ELSE @]],
             metadata |-> metadata[category] ]
      [] type = "heatmap" ->
           [ type |-> "heatmap",
             data |-> [mockHeatmapData EXCEPT
                         !.data = [k \in 1..Len(mockHeatmapData.data) |->
                                     [mockHeatmapData.data[k] EXCEPT
                                        !.intensity = HeatIntensity(category, @),
                                        !.value = 0]]],
             metadata |-> metadata[category] ]
      [] type = "numbers" ->
           [ type |-> "numbers",
             data |-> [mockNumbersData EXCEPT
                         !.keyMetrics = [k \in 1..Len(mockNumbersData.keyMetrics) |->
                                           [mockNumbersData.keyMetrics[k] EXCEPT
                                              !.change = MetricChange(category, @)]]],
             metadata |-> metadata[category] ]

\* async function generateSingleVisualization(type, category), after its delay
generateSingleVisualization(type, category) ==
    CASE type = "pinpoints" ->
           [ type |-> "pinpoints",
             data |-> [k \in 1..Len(mockPinpointData) |->
                         [mockPinpointData[k] EXCEPT
                            !.value = PinpointValue(category, @)]],
             metadata |-> metadata[category] ]
      [] type = "heatmap" ->
           [ type |-> "heatmap",
             data |-> [mockHeatmapData EXCEPT
                         !.data = [k \in 1..Len(mockHeatmapData.data) |->
                                     [mockHeatmapData.data[k] EXCEPT
                                        !.intensity = HeatIntensity(category, @)]]],
             metadata |-> metadata[category] ]
      [] type = "numbers" ->
           [ type |-> "numbers",
             data |-> [mockNumbersData EXCEPT
                         !.keyMetrics = [k \in 1..Len(mockNumbersData.keyMetrics) |->
                                           [mockNumbersData.keyMetrics[k] EXCEPT
                                              !.change = MetricChange(category, @)]]],
             metadata |-> metadata[category] ]

\* ---- processQuery -------------------------------------------------------
\* "Deforestation trends in Michigan's Upper Peninsula"
QDeforestation ==
    <<"D", "e", "f", "o", "r", "e", "s", "t", "a", "t", "i", "o", "n", " ",
      "t", "r", "e", "n", "d", "s", " ", "i", "n", " ", "M", "i", "c", "h",
      "i", "g", "a", "n", "'", "s", " ", "U", "p", "p", "e", "r", " ", "P",
      "e", "n", "i", "n", "s", "u", "l", "a">>
\* "Wildfire risk areas in Michigan's Upper Peninsula"
QWildfire ==
    <<"W", "i", "l", "d", "f", "i", "r", "e", " ", "r", "i", "s", "k", " ",
      "a", "r", "e", "a", "s", " ", "i", "n", " ", "M", "i", "c", "h", "i",
      "g", "a", "n", "'", "s", " ", "U", "p", "p", "e", "r", " ", "P", "e",
      "n", "i", "n", "s", "u", "l", "a">>
\* "Wetland conservation efforts in Saginaw Bay"
QWetland ==
    <<"W", "e", "t", "l", "a", "n", "d", " ", "c", "o", "n", "s", "e", "r",
      "v", "a", "t", "i", "o", "n", " ", "e", "f", "f", "o", "r", "t", "s",
      " ", "i", "n", " ", "S", "a", "g", "i", "n", "a", "w", " ", "B", "a",
      "y">>
\* ""
QEmpty == <<>>

\* "  "
QBlank == <<" ", " ">>

RouterQueries == {QDeforestation, QWildfire, QWetland, QEmpty, QBlank}

\* The inputs sent to processQuery (category and timeRange left out).
RouterInputs == { [query |-> q] : q \in RouterQueries }

\* QuerySchema: query: z.string().min(1, "Query cannot be empty"),
\* category: z.enum([...]).optional(); timeRange: z.string().optional() holds
\* of every timeRange the inputs carry.
QuerySchemaOk(input) ==
    /\ Len(input.query) >= 1
    /\ "category" \in DOMAIN input => input.category \in Categories

\* Bug variant of VizOrder: the heatmap is not generated.
VizOrderNoHeatmap == <<"pinpoints", "numbers">>

\* generateVisualizations: the three generateSingleVisualization calls, in the
\* order their awaited results are pushed.
VizOrder == <<"pinpoints", "heatmap", "numbers">>

\* Bug variant of VizCategory: the visualizations ignore the classification.
VizCategoryDefault(processed) == "biodiversity"

\* generateVisualizations(processed.category, input.timeRange): the category
\* the visualizations are generated for.
VizCategory(processed) == processed.category

\* The object processQuery returns.  id, shareableUrl and generatedAt are
\* wall-clock stamps and are not kept here.
Result(input, processed, visualizations) ==
    [ originalQuery |-> input.query,
      category |-> processed.category,
      summary |-> processed.summary,
      sources |-> processed.sources,
      charities |-> processed.charities,
      visualizations |-> visualizations ]

NotProcessed == [category |-> "none"]

InitRouter ==
    /\ mockPinpointData = MockPinpointInit
    /\ mockHeatmapData \in MockHeatmapInits(HeatLen)
    /\ mockNumbersData = MockNumbersInit
    /\ req = <<>>
    /\ geminiCalls = [q \in RouterQueries |-> 0]
    /\ vizCalls = [q \in RouterQueries |-> 0]

Init ==
    /\ InitRouter
    /\ SampleIdle
    /\ ExtractIdle
    /\ GeminiIdle
    /\ ConvertIdle
    /\ ProxyIdle
    /\ ClockIdle
    /\ ShareIdle
    /\ PageIdle

\* Bug variant of ProcessQuery: a request whose query was already answered is
\* given that answer instead of being processed.
ProcessQueryCached(input) ==
    /\ Len(req) < MaxReq
    /\ IF \E r \in 1..Len(req) : req[r].input = input /\ req[r].pc = "done"
       THEN LET r == CHOOSE r \in 1..Len(req) :
                        req[r].input = input /\ req[r].pc = "done"
            IN  /\ req' = Append(req, req[r])
                /\ UNCHANGED geminiCalls
       ELSE IF QuerySchemaOk(input)
       THEN /\ req' = Append(req, [ input |-> input, pc |-> "gemini",
                                    processed |-> NotProcessed, pending |-> <<>>,
                                    response |-> [status |-> "pending"] ])
            /\ geminiCalls' = [geminiCalls EXCEPT ![input.query] = @ + 1]
       ELSE /\ req' = Append(req, [ input |-> input, pc |-> "rejected",
                                    processed |-> NotProcessed, pending |-> <<>>,
                                    response |-> [status |-> "error",
                                                  code |-> "BAD_REQUEST"] ])
            /\ UNCHANGED geminiCalls
    /\ UNCHANGED <<mockPinpointData, mockHeatmapData, mockNumbersData, vizCalls>>
    /\ UNCHANGED <<sampleVars, extractVars, geminiVars>>
    /\ UNCHANGED <<convertVars, proxyVars, shareVars, searchVars, pageVars>>

\* processQuery.input(QuerySchema).mutation(...): a request arrives.  An input
\* the schema refuses is answered with an error and the handler does not run;
\* otherwise the handler calls processWithGemini, which starts its delay.
ProcessQuery(input) ==
    /\ Len(req) < MaxReq
    /\ IF QuerySchemaOk(input)
       THEN /\ req' = Append(req, [ input |-> input, pc |-> "gemini",
                                    processed |-> NotProcessed, pending |-> <<>>,
                                    response |-> [status |-> "pending"] ])
            /\ geminiCalls' = [geminiCalls EXCEPT ![input.query] = @ + 1]
       ELSE /\ req' = Append(req, [ input |-> input, pc |-> "rejected",
                                    processed |-> NotProcessed, pending |-> <<>>,
                                    response |-> [status |-> "error",
                                                  code |-> "BAD_REQUEST"] ])
            /\ UNCHANGED geminiCalls
    /\ UNCHANGED <<mockPinpointData, mockHeatmapData, mockNumbersData, vizCalls>>
    /\ UNCHANGED <<sampleVars, extractVars, geminiVars>>
    /\ UNCHANGED <<convertVars, proxyVars, shareVars, searchVars, pageVars>>

\* Bug variant of GeminiDone: a category given in the input replaces the one
\* the query is classified as.
GeminiDoneHinted(r) ==
    /\ r \in 1..Len(req)
    /\ req[r].pc = "gemini"
    /\ LET processed == processWithGemini(req[r].input.query)
       IN  req' = [req EXCEPT
                     ![r].processed =
                         IF "category" \in DOMAIN req[r].input
                         THEN [processed EXCEPT !.category = req[r].input.category]
                         ELSE processed,
                     ![r].pc = "viz"]
    /\ vizCalls' = [vizCalls EXCEPT ![req[r].input.query] = @ + 1]
    /\ UNCHANGED <<mockPinpointData, mockHeatmapData, mockNumbersData, geminiCalls>>
    /\ UNCHANGED <<sampleVars, extractVars, geminiVars>>
    /\ UNCHANGED <<convertVars, proxyVars, shareVars, searchVars, pageVars>>

\* processWithGemini's delay ends for request r: the query is categorised,
\* processQuery calls generateVisualizations, whose first
\* generateSingleVisualization call starts its delay.
GeminiDone(r) ==
    /\ r \in 1..Len(req)
    /\ req[r].pc = "gemini"
    /\ req' = [req EXCEPT ![r].processed = processWithGemini(req[r].input.query),
                          ![r].pc = "viz"]
    /\ vizCalls' = [vizCalls EXCEPT ![req[r].input.query] = @ + 1]
    /\ UNCHANGED <<mockPinpointData, mockHeatmapData, mockNumbersData, geminiCalls>>
    /\ UNCHANGED <<sampleVars, extractVars, geminiVars>>
    /\ UNCHANGED <<convertVars, proxyVars, shareVars, searchVars, pageVars>>

\* Bug variant of VizDone: the artifact's data is written back into the
\* module-level dataset it was mapped from.
VizDoneInPlace(r) ==
    /\ r \in 1..Len(req)
    /\ req[r].pc = "viz"
    /\ LET type == VizOrder[Len(req[r].pending) + 1]
           art == generateSingleVisualization(type, VizCategory(req[r].processed))
           made == Append(req[r].pending, art)
       IN  /\ IF Len(made) = Len(VizOrder)
              THEN req' = [req EXCEPT
                             ![r].pending = made,
                             ![r].pc = "done",
                             ![r].response =
                                 [ status |-> "ok",
                                   data |-> Result(req[r].input, req[r].processed, made) ]]
              ELSE req' = [req EXCEPT ![r].pending = made]
           /\ mockPinpointData' = IF type = "pinpoints" THEN art.data ELSE mockPinpointData
           /\ mockHeatmapData' = IF type = "heatmap" THEN art.data ELSE mockHeatmapData
           /\ mockNumbersData' = IF type = "numbers" THEN art.data ELSE mockNumbersData
    /\ UNCHANGED <<geminiCalls, vizCalls>>
    /\ UNCHANGED <<sampleVars, extractVars, geminiVars>>
    /\ UNCHANGED <<convertVars, proxyVars, shareVars, searchVars, pageVars>>

\* A generateSingleVisualization delay ends for request r: the artifact is
\* built from the mock datasets.  After the last one the three are pushed,
\* generateVisualizations returns and processQuery returns its result;
\* otherwise the next generateSingleVisualization call starts its delay.
VizDone(r) ==
    /\ r \in 1..Len(req)
    /\ req[r].pc = "viz"
    /\ LET type == VizOrder[Len(req[r].pending) + 1]
           made == Append(req[r].pending,
                          generateSingleVisualization(type, VizCategory(req[r].processed)))
       IN  IF Len(made) = Len(VizOrder)
           THEN req' = [req EXCEPT
                          ![r].pending = made,
                          ![r].pc = "done",
                          ![r].response =
                              [ status |-> "ok",
                                data |-> Result(req[r].input, req[r].processed, made) ]]
           ELSE req' = [req EXCEPT ![r].pending = made]
    /\ UNCHANGED <<mockPinpointData, mockHeatmapData, mockNumbersData,
                   geminiCalls, vizCalls>>
    /\ UNCHANGED <<sampleVars, extractVars, geminiVars>>
    /\ UNCHANGED <<convertVars, proxyVars, shareVars, searchVars, pageVars>>

\* The router on its own: the clock is not observed.
Next ==
    \/ \E input \in RouterInputs : ProcessQuery(input) /\ UNCHANGED clockVars
    \/ \E r \in 1..MaxReq : GeminiDone(r) /\ UNCHANGED clockVars
    \/ \E r \in 1..MaxReq : VizDone(r) /\ UNCHANGED clockVars

Spec == Init /\ [][Next]_vars

\* ---- processQuery with its optional inputs -------------------------------
\* Inputs with and without category and timeRange: the wildfire query in four
\* variants, the wetland query with a category it is not classified as, and
\* an input whose category the schema refuses.
OptionInputs ==
    { [query |-> QWildfire],
      [query |-> QWildfire, category |-> "deforestation"],
      [query |-> QWildfire, timeRange |-> "2017-2024"],
      [query |-> QWildfire, category |-> "biodiversity", timeRange |-> "2020-2024"],
      [query |-> QWetland, category |-> "wildfire"],
      [query |-> QWetland, category |-> "energy"] }

InitOptions ==
    /\ mockPinpointData = MockPinpointInit
    /\ mockHeatmapData \in MockHeatmapInits(1)
    /\ mockNumbersData = MockNumbersInit
    /\ req = <<>>
    /\ geminiCalls = [q \in RouterQueries |-> 0]
    /\ vizCalls = [q \in RouterQueries |-> 0]
    /\ SampleIdle
    /\ ExtractIdle
    /\ GeminiIdle
    /\ ConvertIdle
    /\ ProxyIdle
    /\ ClockIdle
    /\ ShareIdle
    /\ PageIdle

NextOptions ==
    \/ \E input \in OptionInputs : ProcessQuery(input) /\ UNCHANGED clockVars
    \/ \E r \in 1..MaxReq : GeminiDone(r) /\ UNCHANGED clockVars
    \/ \E r \in 1..MaxReq : VizDone(r) /\ UNCHANGED clockVars

SpecOptions == InitOptions /\ [][NextOptions]_vars

\* ---- processQuery with the wall clock -----------------------------------
\* The clock counts milliseconds from 0 up to MaxTime.
MaxTime == 3

\* The slot of a request whose result has not been put together.
NoStamp == [taken |-> FALSE]

\* Bug variant of Stamps: the identifier and the URL are made from a hash of
\* the query (its length).
StampsByFingerprint(input, t1, t2) ==
    [ taken |-> TRUE,
      id |-> <<"query_", Len(input.query)>>,
      shareableUrl |-> <<"NEXTAUTH_URL", "/results/", Len(input.query)>> ]

\* id: `query_${Date.now()}` and, six properties later in the same object
\* literal, shareableUrl: `${process.env.NEXTAUTH_URL}/results/${Date.now()}`,
\* with t1 and t2 the values the two Date.now() calls return.  generatedAt, a
\* third clock reading, is not kept.
Stamps(input, t1, t2) ==
    [ taken |-> TRUE,
      id |-> <<"query_", t1>>,
      shareableUrl |-> <<"NEXTAUTH_URL", "/results/", t2>> ]

\* The queries sent to processQuery while the clock is observed.
StampInputs == { [query |-> QWetland], [query |-> QWildfire] }

InitStamps ==
    /\ mockPinpointData = MockPinpointInit
    /\ mockHeatmapData \in MockHeatmapInits(1)
    /\ mockNumbersData = MockNumbersInit
    /\ req = <<>>
    /\ geminiCalls = [q \in RouterQueries |-> 0]
    /\ vizCalls = [q \in RouterQueries |-> 0]
    /\ now = 0
    /\ stamps = [r \in 1..MaxReq |-> NoStamp]
    /\ ShareIdle
    /\ PageIdle
    /\ SampleIdle
    /\ ExtractIdle
    /\ GeminiIdle
    /\ ConvertIdle
    /\ ProxyIdle

\* A millisecond passes.
Tick ==
    /\ now < MaxTime
    /\ now' = now + 1
    /\ UNCHANGED stamps
    /\ UNCHANGED <<sampleVars, extractVars, routerVars, geminiVars>>
    /\ UNCHANGED <<convertVars, proxyVars, shareVars, searchVars, pageVars>>

\* VizDone(r) with the clock: when the last artifact is made, processQuery
\* evaluates its return object, reading the clock once for id and once for
\* shareableUrl; the clock may advance by a millisecond between the two reads.
StampedVizDone(r) ==
    /\ VizDone(r)
    /\ IF req'[r].pc = "done"
       THEN \E d \in 0..1 :
                /\ now + d <= MaxTime
                /\ stamps' = [stamps EXCEPT ![r] = Stamps(req[r].input, now, now + d)]
                /\ now' = now + d
       ELSE UNCHANGED clockVars

NextStamps ==
    \/ \E input \in StampInputs : ProcessQuery(input) /\ UNCHANGED clockVars
    \/ \E r \in 1..MaxReq : GeminiDone(r) /\ UNCHANGED clockVars
    \/ \E r \in 1..MaxReq : StampedVizDone(r)
    \/ Tick

SpecStamps == InitStamps /\ [][NextStamps]_vars

\* ---- getSharedResult ------------------------------------------------------
\* getSharedResult: .query(async ({ input }) => ({ id: input.id, found: true,
\* data: mockPinpointData }))
getSharedResult(input) ==
    [ id |-> input.id, found |-> TRUE, data |-> mockPinpointData ]

\* The ids getSharedResult is asked for: every id processQuery can issue
\* within MaxTime, and one it cannot issue.
ShareIds == { <<"query_", t>> : t \in (-1)..MaxTime }

\* The queries sent to processQuery while results are looked up.
ShareInputs == { [query |-> QWildfire] }

\* A client calls getSharedResult with the given id.
GetSharedResult(id) ==
    /\ shared' = [asked |-> TRUE, response |-> getSharedResult([id |-> id])]
    /\ UNCHANGED <<sampleVars, extractVars, routerVars, geminiVars>>
    /\ UNCHANGED <<convertVars, proxyVars, clockVars, searchVars, pageVars>>

NextShare ==
    \/ \E input \in ShareInputs :
          ProcessQuery(input) /\ UNCHANGED clockVars
    \/ \E r \in 1..MaxReq : GeminiDone(r) /\ UNCHANGED clockVars
    \/ \E r \in 1..MaxReq : StampedVizDone(r)
    \/ Tick
    \/ \E id \in ShareIds : GetSharedResult(id)

SpecShare == InitStamps /\ [][NextShare]_vars

\* ---- properties of the router -------------------------------------------
\* Request r has been answered successfully.
Answered(r) == r \in 1..Len(req) /\ req[r].pc = "done"

\* The requests answered successfully with a result of the given category.
AnsweredAs(cat) ==
    { r \in 1..Len(req) : Answered(r) /\ req[r].response.data.category = cat }

\* The artifacts of the given kind in the result of request r.
ArtifactsOf(r, kind) ==
    LET vs == req[r].response.data.visualizations
    IN  { vs[k] : k \in { j \in 1..Len(vs) : vs[j].type = kind } }

\* C5: whatever the category, synthesis returns exactly three artifacts, one
\* of each kind, in the order pinpoints, heatmap, numbers, and never a subset:
\* every successful processQuery response carries exactly these three, and a
\* request that has not finished synthesis has no successful response.
C5_ThreeArtifacts ==
    \A r \in 1..Len(req) :
        /\ Answered(r) =>
            LET vs == req[r].response.data.visualizations
            IN  /\ req[r].response.status = "ok"
                /\ Len(vs) = 3
                /\ <<vs[1].type, vs[2].type, vs[3].type>>
                       = <<"pinpoints", "heatmap", "numbers">>
        /\ ~Answered(r) => req[r].response.status # "ok"

\* A wildfire and a biodiversity request answered, each with three artifacts.
C5_Witness ==
    /\ Len(req) = 2
    /\ \A r \in 1..2 : Answered(r) /\ Len(req[r].response.data.visualizations) = 3
    /\ req[1].response.data.category = "wildfire"
    /\ req[2].response.data.category = "biodiversity"

\* C6: in the pinpoints artifact every point's value is the base dataset's
\* value times 0.6 for category wildfire, and the base dataset's value
\* unchanged for every other category.
C6_PinpointValues ==
    \A r \in 1..Len(req) : Answered(r) =>
        \A art \in ArtifactsOf(r, "pinpoints") :
            /\ Len(art.data) = Len(mockPinpointData)
            /\ \A k \in 1..Len(art.data) :
                 10 * art.data[k].value =
                    ( IF req[r].response.data.category = "wildfire"
                      THEN 6 ELSE 10 ) * mockPinpointData[k].value

\* A wildfire answer whose points read 51, 39, 24, 45, 54, next to a
\* deforestation answer whose points read 85, 65, 40, 75, 90.
C6_Witness ==
    /\ \E r \in AnsweredAs("wildfire") :
         \E art \in ArtifactsOf(r, "pinpoints") :
            [k \in 1..5 |-> art.data[k].value] = <<510, 390, 240, 450, 540>>
    /\ \E r \in AnsweredAs("deforestation") :
         \E art \in ArtifactsOf(r, "pinpoints") :
            [k \in 1..5 |-> art.data[k].value] = <<850, 650, 400, 750, 900>>

\* C7: in the heatmap artifact every cell's intensity is 1 minus the base
\* dataset's intensity for category deforestation (staying within [0, 1]) and
\* the base dataset's intensity for every other category; the grid keeps the
\* same cells in the same order.
C7_HeatIntensities ==
    \A r \in 1..Len(req) : Answered(r) =>
        \A art \in ArtifactsOf(r, "heatmap") :
            LET cells == art.data.data
                base == mockHeatmapData.data
            IN  /\ Len(cells) = Len(base)
                /\ \A k \in 1..Len(cells) :
                     /\ cells[k].intensity =
                           ( IF req[r].response.data.category = "deforestation"
                             THEN 10 - base[k].intensity
                             ELSE base[k].intensity )
                     /\ cells[k].intensity \in 0..10
                     /\ cells[k].lat = base[k].lat
                     /\ cells[k].lng = base[k].lng

\* A deforestation answer over the base intensities 0.3, 0.0, which reads
\* 0.7, 1.0, next to a wildfire answer that reads the base intensities.
C7_Witness ==
    /\ mockHeatmapData.data[1].intensity = 3
    /\ mockHeatmapData.data[2].intensity = 0
    /\ \E r \in AnsweredAs("deforestation") :
         \E art \in ArtifactsOf(r, "heatmap") :
            /\ art.data.data[1].intensity = 7
            /\ art.data.data[2].intensity = 10
    /\ \E r \in AnsweredAs("wildfire") :
         \E art \in ArtifactsOf(r, "heatmap") :
            /\ art.data.data[1].intensity = 3
            /\ art.data.data[2].intensity = 0

\* C8: in the numbers artifact every keyMetric's change is the absolute value
\* of the base dataset's change for category wildfire (so none is negative),
\* and the base dataset's change with its sign for every other category.
C8_MetricChanges ==
    \A r \in 1..Len(req) : Answered(r) =>
        \A art \in ArtifactsOf(r, "numbers") :
            LET ms == art.data.keyMetrics
                base == mockNumbersData.keyMetrics
            IN  /\ Len(ms) = Len(base)
                /\ \A k \in 1..Len(ms) :
                     IF req[r].response.data.category = "wildfire"
                     THEN /\ ms[k].change >= 0
                          /\ ms[k].change \in {base[k].change, -base[k].change}
                     ELSE ms[k].change = base[k].change

\* A wildfire answer whose changes read 2.3, 0.8, 1.2, 3.0, next to a
\* biodiversity answer whose changes read -2.3, -0.8, 1.2, 3.0.
C8_Witness ==
    /\ \E r \in AnsweredAs("wildfire") :
         \E art \in ArtifactsOf(r, "numbers") :
            [k \in 1..4 |-> art.data.keyMetrics[k].change] = <<23, 8, 12, 30>>
    /\ \E r \in AnsweredAs("biodiversity") :
         \E art \in ArtifactsOf(r, "numbers") :
            [k \in 1..4 |-> art.data.keyMetrics[k].change] = <<-23, -8, 12, 30>>

\* The category the ordered keyword rules give a query.
RuleCategory(q) ==
    IF Mentions(q, KwForest) THEN "deforestation"
    ELSE IF Mentions(q, KwFire) THEN "wildfire"
    ELSE "biodiversity"

\* C9: end to end, the three visualizations of a processQuery result are the
\* ones synthesized for the category the result reports, which is the
\* category classification assigns to the query; the query "Deforestation
\* trends in Michigan's Upper Peninsula" yields category deforestation,
\* heatmap intensities inverted relative to the raw dataset and keyMetrics
\* changes with their original sign.
C9_EndToEnd ==
    \A r \in 1..Len(req) : Answered(r) =>
        LET d == req[r].response.data
            vs == d.visualizations
        IN  /\ d.category = RuleCategory(req[r].input.query)
            /\ d.originalQuery = req[r].input.query
            /\ \A k \in 1..Len(vs) :
                 vs[k] = generateSingleVisualization(vs[k].type, d.category)
            /\ req[r].input.query = QDeforestation =>
                 /\ d.category = "deforestation"
                 /\ \A k \in 1..Len(mockHeatmapData.data) :
                      /\ vs[2].data.data[k].intensity
                            = 10 - mockHeatmapData.data[k].intensity
                      /\ vs[2].data.data[k].intensity
                            # mockHeatmapData.data[k].intensity
                 /\ \A k \in 1..Len(mockNumbersData.keyMetrics) :
                      vs[3].data.keyMetrics[k].change
                         = mockNumbersData.keyMetrics[k].change

\* The Upper Peninsula query answered: forest coverage metadata, inverted
\* intensities, a negative change kept negative.
C9_Witness ==
    \E r \in 1..Len(req) :
        /\ Answered(r)
        /\ req[r].input.query = QDeforestation
        /\ req[r].response.data.category = "deforestation"
        /\ req[r].response.data.visualizations[2].metadata.title
              = "Forest Coverage Changes"
        /\ mockHeatmapData.data[1].intensity = 3
        /\ req[r].response.data.visualizations[2].data.data[1].intensity = 7
        /\ req[r].response.data.visualizations[3].data.keyMetrics[1].change = -23

\* The requests with query q that the schema accepted, and those among them
\* whose classification has returned.
\* The artifacts every request has been given so far are the ones a first
\* call would return: the pinpoint and numbers datasets are as written in the
\* source, and each artifact is what synthesis returns for its kind and the
\* request's category on the datasets as they are now.
SynthesisAsFirst ==
    /\ mockPinpointData = MockPinpointInit
    /\ mockNumbersData = MockNumbersInit
    /\ \A r \in 1..Len(req) :
         \A k \in 1..Len(req[r].pending) :
            req[r].pending[k] =
                generateSingleVisualization(VizOrder[k], req[r].processed.category)

\* C21: synthesis is pure in (category, base dataset): no step changes the
\* three base datasets, and after any sequence of earlier synthesize calls a
\* call returns the artifact it would return as the first call; nothing
\* accumulates across calls.
C21_SynthesisPure ==
    [][ /\ UNCHANGED <<mockPinpointData, mockHeatmapData, mockNumbersData>>
        /\ SynthesisAsFirst' ]_vars

\* Two wildfire requests have been answered one after the other: the second
\* got the same dampened values as the first, not values dampened twice.
C21_Witness ==
    /\ Len(req) = 2
    /\ Answered(1)
    /\ Answered(2)
    /\ req[1].response.data.category = "wildfire"
    /\ req[2].response.data.category = "wildfire"
    /\ req[2].response.data.visualizations = req[1].response.data.visualizations
    /\ req[2].response.data.visualizations[1].data[1].value = 510
    /\ req[2].response.data.visualizations[3].data.keyMetrics[1].change = 23

\* Equality of two records but for one field.
SameBut(a, b, field) ==
    /\ DOMAIN a = DOMAIN b
    /\ \A f \in DOMAIN a \ {field} : a[f] = b[f]

\* C23: synthesis changes only the fields the category rules name.  Each
\* point equals the base point but for value (its severity is the base
\* severity even when value is dampened), each cell equals the base cell but
\* for intensity, the heatmap equals the base heatmap but for its cells, each
\* metric equals the base metric but for change, and the numbers equal the
\* base numbers but for their metrics.
C23_OnlyRuleFieldsChange ==
    \A r \in 1..Len(req) : Answered(r) =>
        LET vs == req[r].response.data.visualizations IN
        /\ Len(vs[1].data) = Len(mockPinpointData)
        /\ \A k \in 1..Len(vs[1].data) :
              SameBut(vs[1].data[k], mockPinpointData[k], "value")
        /\ SameBut(vs[2].data, mockHeatmapData, "data")
        /\ Len(vs[2].data.data) = Len(mockHeatmapData.data)
        /\ \A k \in 1..Len(vs[2].data.data) :
              SameBut(vs[2].data.data[k], mockHeatmapData.data[k], "intensity")
        /\ SameBut(vs[3].data, mockNumbersData, "keyMetrics")
        /\ Len(vs[3].data.keyMetrics) = Len(mockNumbersData.keyMetrics)
        /\ \A k \in 1..Len(vs[3].data.keyMetrics) :
              SameBut(vs[3].data.keyMetrics[k], mockNumbersData.keyMetrics[k], "change")

\* A wildfire request has been answered: its first point reads 51 and is
\* still of severity "low", and a deforestation request has been answered
\* with inverted intensities and the base cell values.
C23_Witness ==
    /\ \E r \in AnsweredAs("wildfire") :
         LET pt == req[r].response.data.visualizations[1].data[1]
         IN  pt.value = 510 /\ pt.severity = "low" /\ pt.name = "Tahquamenon Falls State Park"
    /\ \E r \in AnsweredAs("deforestation") :
         LET cell == req[r].response.data.visualizations[2].data.data[2]
         IN  cell.intensity = 7 /\ cell.value = 42 /\ cell.lat = 417

\* searchQuery.trim() is the empty string (handleSearch of the search page).
IsBlank(q) == \A k \in 1..Len(q) : q[k] = " "

\* C14: an empty or whitespace-only query sent to processQuery is refused by
\* the validation and never reaches classification.
C14_BlankRejected ==
    \A r \in 1..Len(req) :
        IsBlank(req[r].input.query) =>
            /\ req[r].pc = "rejected"
            /\ geminiCalls[req[r].input.query] = 0

\* Request r has been answered and its result stamped.
Stamped(r) == r \in 1..Len(req) /\ req[r].pc = "done" /\ stamps[r].taken

\* C19 as stated: the shareable URL is a function of the query: two results
\* for the same query carry the same shareableUrl (and the same id).
C19_SameQuerySameUrl ==
    \A r1 \in 1..Len(req), r2 \in 1..Len(req) :
        (Stamped(r1) /\ Stamped(r2) /\ req[r1].input = req[r2].input) =>
            /\ stamps[r1].shareableUrl = stamps[r2].shareableUrl
            /\ stamps[r1].id = stamps[r2].id

\* C19, as the code behaves: id and shareableUrl are made from the clock at
\* the moment the result is put together and from nothing else: the id is
\* query_<t1> and the URL is <base>/results/<t2> for clock readings
\* t1 <= t2 <= now, t2 at most a millisecond after t1, and the query occurs in
\* neither.
C19_StampsFromClock ==
    \A r \in 1..Len(req) :
        Stamped(r) =>
            \E t1 \in 0..now, t2 \in 0..now :
                /\ t1 <= t2
                /\ t2 <= t1 + 1
                /\ stamps[r].id = <<"query_", t1>>
                /\ stamps[r].shareableUrl = <<"NEXTAUTH_URL", "/results/", t2>>

\* Two requests with the same query have been answered, a millisecond or
\* more apart, and their shareable URLs differ.
C19_Witness ==
    /\ Len(req) = 2
    /\ Stamped(1)
    /\ Stamped(2)
    /\ req[1].input = req[2].input
    /\ stamps[1].shareableUrl # stamps[2].shareableUrl
    /\ stamps[1].id # stamps[2].id

\* C30: the optional category and timeRange inputs do not influence the
\* result.  Two answered requests with the same query text, whatever their
\* category and timeRange, have the same result category and the same three
\* visualizations, and the category is the one the query text is classified
\* as.
C30_OptionsIgnored ==
    \A r1 \in 1..Len(req), r2 \in 1..Len(req) :
        (Answered(r1) /\ Answered(r2) /\ req[r1].input.query = req[r2].input.query) =>
            /\ req[r1].response.data.category = Categorize(req[r1].input.query)
            /\ req[r1].response.data.category = req[r2].response.data.category
            /\ req[r1].response.data.visualizations
                   = req[r2].response.data.visualizations

\* The wildfire query has been answered twice, once sent alone and once sent
\* with the category "biodiversity" and a time range: both answers are of
\* category wildfire, with dampened values.
C30_Witness ==
    /\ Len(req) = 2
    /\ Answered(1)
    /\ Answered(2)
    /\ req[1].input = [query |-> QWildfire]
    /\ req[2].input = [query |-> QWildfire, category |-> "biodiversity",
                                           timeRange |-> "2020-2024"]
    /\ req[2].response.data.category = "wildfire"
    /\ req[2].response.data.visualizations[1].data[1].value = 510

\* The requests whose result carries the given id.
IssuedAs(id) == { r \in 1..Len(req) : Stamped(r) /\ stamps[r].id = id }

\* C29: sharing round trip.  getSharedResult called with the id of a result
\* processQuery has returned reports found = true together with the data of
\* a result of that id, and called with an id processQuery has not issued it
\* does not report found = true.
C29_RoundTrip ==
    shared.asked =>
        IF IssuedAs(shared.response.id) = {}
        THEN ~shared.response.found
        ELSE /\ shared.response.found
             /\ \E r \in IssuedAs(shared.response.id) :
                   shared.response.data = req[r].response.data

\* C27: any two distinct successful processQuery invocations return
\* different ids, also when they complete at the same clock reading and
\* whether or not their queries differ.
C27_DistinctIds ==
    \A r1 \in 1..Len(req), r2 \in 1..Len(req) :
        (r1 # r2 /\ Stamped(r1) /\ Stamped(r2)) => stamps[r1].id # stamps[r2].id

\* C28: in every processQuery result the token of the id (after "query_")
\* equals the token at the end of shareableUrl (after "/results/").
C28_SameToken ==
    \A r \in 1..Len(req) :
        Stamped(r) => stamps[r].id[2] = stamps[r].shareableUrl[3]

Accepted(q) ==
    { r \in 1..Len(req) : req[r].input.query = q /\ req[r].pc # "rejected" }
Classified(q) ==
    { r \in Accepted(q) : req[r].pc \in {"viz", "done"} }

SampleBudget == 50

\* A collection of k Point features, as a storage-field file holds them.
PointCollection(k) ==
    [ features |-> [f \in 1..k |->
                      MkFeature("Point", [FieldName |-> "Antrim"], f, 1, 1, 1, FALSE)] ]

\* The files the script is run on: small collections of every shape, and
\* collections of points below, at and above the budget.
ConvertInputs ==
    FeatureCollections(1) \cup SandwichCollections
        \cup { PointCollection(k) : k \in {0, 49, 50, 51, 120} }

\* Bug variant of MockDataJSON: the visualization is left out.
MockDataJSONEmpty(sampledCoords) ==
    [ id |-> "mock_1",
      originalQuery |-> "Michigan Gas Storage Fields",
      category |-> "energy",
      summary |-> "Sampled gas storage field coordinates in Michigan.",
      sources |-> <<"Michigan Gas Storage Data 2025">>,
      charities |-> <<>>,
      visualizations |-> <<>>,
      shareableUrl |-> "https://enviducate.org/mock-result" ]

\* const MockDataJSON = { ... }: "the JSON object in the same format as
\* MockData".  lastUpdated and generatedAt, wall-clock stamps, are not kept.
MockDataJSON(sampledCoords) ==
    [ id |-> "mock_1",
      originalQuery |-> "Michigan Gas Storage Fields",
      category |-> "energy",
      summary |-> "Sampled gas storage field coordinates in Michigan.",
      sources |-> <<"Michigan Gas Storage Data 2025">>,
      charities |-> <<>>,
      visualizations |->
          << [ type |-> "pinpoints",
               data |-> sampledCoords,
               metadata |->
                   [ title |-> "Gas Storage Fields",
                     description |->
                         "50 sampled coordinates from Michigan gas storage fields.",
                     source |-> "Michigan Gas Storage Data" ] ] >>,
      shareableUrl |-> "https://enviducate.org/mock-result" ]

\* const geojson = JSON.parse(fs.readFileSync(inputFileName, 'utf8'));
InitConvert ==
    /\ geojson \in ConvertInputs
    /\ allCoords = <<>>
    /\ epc = "input"
    /\ SampleIdle
    /\ RouterIdle
    /\ GeminiIdle
    /\ ConvertIdle
    /\ ProxyIdle
    /\ ClockIdle
    /\ ShareIdle
    /\ PageIdle

\* const sampledCoords = sampleCoordinates(allCoords, 50);
ConvertSample ==
    /\ epc = "done"
    /\ spc = "idle"
    /\ coords' = allCoords
    /\ n' = SampleBudget
    /\ sampled' = sampleCoordinates(allCoords, SampleBudget)
    /\ spc' = "done"
    /\ UNCHANGED <<extractVars, routerVars, geminiVars>>
    /\ UNCHANGED <<convertVars, proxyVars, clockVars, shareVars, searchVars, pageVars>>

\* fs.writeFileSync(outputFileName, JSON.stringify(MockDataJSON, null, 2));
ConvertWrite ==
    /\ spc = "done"
    /\ output = NoOutput
    /\ output' = [written |-> TRUE, content |-> MockDataJSON(sampled)]
    /\ UNCHANGED <<sampleVars, extractVars, routerVars, geminiVars>>
    /\ UNCHANGED <<proxyVars, clockVars, shareVars, searchVars, pageVars>>

NextConvert ==
    \/ ExtractCall
    \/ ConvertSample
    \/ ConvertWrite

SpecConvert == InitConvert /\ [][NextConvert]_vars

Routes == {"environmental", "process-query"}

\* setTimeout(() => ac.abort(), 15000)
TimeoutMs == 15000

\* JavaScript values of body.query.
JsUndefined == [t |-> "undefined"]
JsString(str) == [t |-> "string", s |-> str]
JsNumber(v) == [t |-> "number", v |-> v]

\* What `await request.json()` meets: a body that is not JSON, the JSON value
\* null, or an object whose query property is absent, "", 0, 5 or "fire".
Bodies ==
    { [kind |-> "malformed"], [kind |-> "null"] } \cup
    { [kind |-> "object", query |-> q] :
        q \in { JsUndefined, JsString(<<>>), JsNumber(0), JsNumber(5),
                JsString(KwFire) } }

\* JavaScript truthiness of a value of body.query.
Truthy(q) ==
    CASE q.t = "undefined" -> FALSE
      [] q.t = "string"    -> q.s # <<>>
      [] q.t = "number"    -> q.v # 0

\* Bug variant of QueryOk: only the type is looked at.
QueryOkTypeOnly(q) == q.t = "string"

\* The negation of `!body.query || typeof body.query !== "string"`.
QueryOk(q) == Truthy(q) /\ q.t = "string"

\* The handler up to its validation: "throw" when request.json() rejects or
\* when body.query is read off null (process-query reads body.query, while
\* environmental reads body?.query), else "invalid" or "valid".
Validate(route, body) ==
    CASE body.kind = "malformed" -> "throw"
      [] body.kind = "null" ->
            IF route = "environmental" THEN "invalid" ELSE "throw"
      [] body.kind = "object" ->
            IF QueryOk(body.query) THEN "valid" ELSE "invalid"

NoResponse == [sent |-> FALSE, status |-> 0, error |-> ""]

\* { error: "Query is required and must be a string" }, { status: 400 }
BadRequest ==
    [sent |-> TRUE, status |-> 400, error |-> "Query is required and must be a string"]

\* Bug variant of CatchResponse: a failure is answered as a success.
CatchResponseFallback ==
    [sent |-> TRUE, status |-> 200, error |-> ""]

\* catch (err) { return NextResponse.json({ error: "Internal server error",
\* ... }, { status: 500 }); }
CatchResponse ==
    [sent |-> TRUE, status |-> 500, error |-> "Internal server error"]

\* The answer to an upstream response that is not ok.
UpstreamError(route, status) ==
    [ sent |-> TRUE, status |-> status,
      error |-> IF route = "environmental"
                THEN "FastAPI returned an error"
                ELSE "Failed to process environmental query" ]

\* NextResponse.json(data, { status: 200 })
Success == [sent |-> TRUE, status |-> 200, error |-> ""]

\* The status codes the FastAPI service answers with.
UpstreamStatuses == {200, 422, 503}

\* fastApiResponse.ok
Ok(status) == status \in 200..299

NoTimer == [state |-> "none", delay |-> 0]

InitProxy ==
    /\ preq = <<>>
    /\ SampleIdle
    /\ ExtractIdle
    /\ RouterIdle
    /\ GeminiIdle
    /\ ConvertIdle
    /\ ClockIdle
    /\ ShareIdle
    /\ PageIdle

\* POST(request): the handler runs up to its first await that waits on the
\* service.  A body that fails the validation is answered 400 and one that
\* makes the handler throw is answered by the catch block; otherwise the
\* environmental route arms its abort timer, and either route issues its one
\* fetch.
Post(route, body) ==
    /\ Len(preq) < MaxReq
    /\ LET v == Validate(route, body)
           rec == [ route |-> route, body |-> body, pc |-> "done",
                    timer |-> NoTimer, fetches |-> 0, upstream |-> "none",
                    response |-> NoResponse ]
       IN  preq' = Append(preq,
              CASE v = "throw"   -> [rec EXCEPT !.response = CatchResponse]
                [] v = "invalid" -> [rec EXCEPT !.response = BadRequest]
                [] v = "valid"   ->
                     [rec EXCEPT
                        !.pc = "fetch",
                        !.timer = IF route = "environmental"
                                  THEN [state |-> "armed", delay |-> TimeoutMs]
                                  ELSE NoTimer,
                        !.fetches = 1,
                        !.upstream = "pending"])
    /\ UNCHANGED <<sampleVars, extractVars, routerVars, geminiVars>>
    /\ UNCHANGED <<convertVars, clockVars, shareVars, searchVars, pageVars>>

\* clearTimeout(to): an armed timer is cancelled; process-query has none.
ClearTimeout(timer) ==
    IF timer.state = "armed" THEN [timer EXCEPT !.state = "cleared"] ELSE timer

\* The service answers request r with the given status: fetch resolves, the
\* handler clears its timer and starts reading the body.
FetchResolves(r, status) ==
    /\ r \in 1..Len(preq)
    /\ preq[r].pc = "fetch"
    /\ preq' = [preq EXCEPT
                  ![r].timer = ClearTimeout(@),
                  ![r].upstream = IF Ok(status) THEN "ok" ELSE "error",
                  ![r].pc = IF Ok(status) THEN "body" ELSE "bodyError",
                  ![r].response = [@ EXCEPT !.status = status]]
    /\ UNCHANGED <<sampleVars, extractVars, routerVars, geminiVars>>
    /\ UNCHANGED <<convertVars, clockVars, shareVars, searchVars, pageVars>>

\* Bug variant of FetchRejects: a rejected fetch is issued again, twice at most.
FetchRejectsRetry(r) ==
    /\ r \in 1..Len(preq)
    /\ preq[r].pc = "fetch"
    /\ IF preq[r].fetches < 3
       THEN preq' = [preq EXCEPT ![r].fetches = @ + 1]
       ELSE preq' = [preq EXCEPT
                       ![r].upstream = "unreachable",
                       ![r].pc = "done",
                       ![r].response = CatchResponse]
    /\ UNCHANGED <<sampleVars, extractVars, routerVars, geminiVars>>
    /\ UNCHANGED <<convertVars, clockVars, shareVars, searchVars, pageVars>>

\* The service cannot be reached: fetch rejects and the catch block answers.
\* The timer of the environmental route is left armed.
FetchRejects(r) ==
    /\ r \in 1..Len(preq)
    /\ preq[r].pc = "fetch"
    /\ preq' = [preq EXCEPT
                  ![r].upstream = "unreachable",
                  ![r].pc = "done",
                  ![r].response = CatchResponse]
    /\ UNCHANGED <<sampleVars, extractVars, routerVars, geminiVars>>
    /\ UNCHANGED <<convertVars, clockVars, shareVars, searchVars, pageVars>>

\* The timer of request r fires and calls ac.abort().  A fetch still pending
\* rejects and the catch block answers; after the handler has returned the
\* abort has no effect.
TimerFires(r) ==
    /\ r \in 1..Len(preq)
    /\ preq[r].timer.state = "armed"
    /\ IF preq[r].pc = "fetch"
       THEN preq' = [preq EXCEPT
                       ![r].timer.state = "fired",
                       ![r].upstream = "aborted",
                       ![r].pc = "done",
                       ![r].response = CatchResponse]
       ELSE preq' = [preq EXCEPT ![r].timer.state = "fired"]
    /\ UNCHANGED <<sampleVars, extractVars, routerVars, geminiVars>>
    /\ UNCHANGED <<convertVars, clockVars, shareVars, searchVars, pageVars>>

\* The body of the service's answer has arrived in full; isJson tells whether
\* it parses.  An ok answer is passed on if it parses, else json() throws.  An
\* answer that is not ok is passed on with its status, except that on the
\* environmental route a body that does not parse makes json() throw and the
\* text() after it reject, the body having been consumed.
BodyArrives(r, isJson) ==
    /\ r \in 1..Len(preq)
    /\ preq[r].pc \in {"body", "bodyError"}
    /\ preq' = [preq EXCEPT
                  ![r].pc = "done",
                  ![r].response =
                      IF preq[r].pc = "body"
                      THEN IF isJson THEN Success ELSE CatchResponse
                      ELSE IF preq[r].route = "environmental" /\ ~isJson
                      THEN CatchResponse
                      ELSE UpstreamError(preq[r].route, @.status)]
    /\ UNCHANGED <<sampleVars, extractVars, routerVars, geminiVars>>
    /\ UNCHANGED <<convertVars, clockVars, shareVars, searchVars, pageVars>>

\* The connection breaks while the body is read: json() or text() rejects.
BodyFails(r) ==
    /\ r \in 1..Len(preq)
    /\ preq[r].pc \in {"body", "bodyError"}
    /\ preq' = [preq EXCEPT ![r].pc = "done", ![r].response = CatchResponse]
    /\ UNCHANGED <<sampleVars, extractVars, routerVars, geminiVars>>
    /\ UNCHANGED <<convertVars, clockVars, shareVars, searchVars, pageVars>>

\* The service may also stay silent: then none of its steps is taken.
NextProxy ==
    \/ \E route \in Routes, body \in Bodies : Post(route, body)
    \/ \E r \in 1..MaxReq, status \in UpstreamStatuses : FetchResolves(r, status)
    \/ \E r \in 1..MaxReq : FetchRejects(r)
    \/ \E r \in 1..MaxReq : TimerFires(r)
    \/ \E r \in 1..MaxReq, isJson \in BOOLEAN : BodyArrives(r, isJson)
    \/ \E r \in 1..MaxReq : BodyFails(r)

SpecProxy == InitProxy /\ [][NextProxy]_vars

\* Request r is waiting for the service: for its answer or for the rest of it.
AwaitsUpstream(r) == preq[r].pc \in {"fetch", "body", "bodyError"}

\* C11: a request never waits for the external service without bound: while
\* it waits, a 15-second timer is armed that will cancel the call, so the
\* request is answered whatever the service does.
C11_UpstreamWaitBounded ==
    \A r \in 1..Len(preq) :
        AwaitsUpstream(r) =>
            /\ preq[r].timer.state = "armed"
            /\ preq[r].timer.delay = TimeoutMs

\* The call of request r to the service timed out or could not be made.
UpstreamFailed(r) == preq[r].upstream \in {"aborted", "unreachable"}

\* C12 as stated: a request whose call to the service times out or finds the
\* service unavailable is still answered successfully.
C12_FailureAbsorbed ==
    \A r \in 1..Len(preq) :
        (UpstreamFailed(r) /\ preq[r].response.sent) =>
            preq[r].response.status = 200

\* C12, as the code behaves: a request whose call to the service times out
\* or finds the service unavailable is answered at once with the error
\* response 500 "Internal server error"; there is no fallback path and no
\* second call.
C12_FailureSurfaced ==
    \A r \in 1..Len(preq) :
        UpstreamFailed(r) =>
            /\ preq[r].pc = "done"
            /\ preq[r].response.sent
            /\ preq[r].response.status = 500
            /\ preq[r].response.error = "Internal server error"
            /\ preq[r].fetches = 1

\* A request to the environmental route has been answered 500 after its
\* timer cancelled the call.
C12_Witness ==
    \E r \in 1..Len(preq) :
        /\ preq[r].route = "environmental"
        /\ preq[r].upstream = "aborted"
        /\ preq[r].timer.state = "fired"
        /\ preq[r].response.status = 500

\* The body of request r carries no non-empty string as its query.
LacksQuery(r) ==
    IF preq[r].body.kind # "object" THEN TRUE
    ELSE IF preq[r].body.query.t # "string" THEN TRUE
    ELSE preq[r].body.query.s = <<>>

C24_NoRetry ==
    [][ /\ \A r \in 1..Len(preq) : preq'[r].fetches = preq[r].fetches
        /\ \A r \in 1..Len(preq') : preq'[r].fetches <= 1 ]_vars

\* Two requests whose one call could not be made have been answered, the
\* second on the environmental route, where the timer left armed has fired
\* since without any effect.
C24_Witness ==
    /\ Len(preq) = 2
    /\ preq[1].route = "process-query"
    /\ preq[1].upstream = "unreachable"
    /\ preq[1].fetches = 1
    /\ preq[2].route = "environmental"
    /\ preq[2].upstream = "unreachable"
    /\ preq[2].timer.state = "fired"
    /\ preq[2].fetches = 1
    /\ preq[2].pc = "done"

(***************************************************************************)
(*        app/app/page.tsx: SearchInterface and AppPage (the app page)     *)
(***************************************************************************)
\* Largest number of searches started on the page.
MaxSearches == 3

\* What the user types into the search box, and the predefined queries of the
\* dropdown.
TypedTexts == { <<>>, <<" ">>, KwFire }
predefinedQueries == { QWildfire, QWetland }

\* What the request of a search may come back with: a result object, or an
\* error message (a response that is not ok, or a rejected fetch).
ResultPool == { [id |-> "query_1"], [id |-> "query_2"] }
ErrorPool == { "HTTP error! status: 500", "Failed to fetch" }

\* The page as it is first rendered; every other part is idle.
InitPage ==
    /\ PageIdle
    /\ SampleIdle
    /\ ExtractIdle
    /\ RouterIdle
    /\ GeminiIdle
    /\ ConvertIdle
    /\ ProxyIdle
    /\ ClockIdle
    /\ ShareIdle

\* onChange={(e) => setQuery(e.target.value)}; the input is disabled while
\* loading, and SearchInterface is rendered only in the search view.
SetQuery(text) ==
    /\ ~showResults
    /\ ~isLoading
    /\ squery' = text
    /\ UNCHANGED <<isLoading, queryError, inflight, searches, pageVars>>
    /\ UNCHANGED <<sampleVars, extractVars, routerVars, geminiVars>>
    /\ UNCHANGED <<convertVars, proxyVars, clockVars, shareVars>>

\* handleSearch(searchQuery): returns at once on a blank text; otherwise
\* callFastAPI sets isLoading, calls onSearchStart (handleSearchStart:
\* setIsSearching(true)) and sends its request.
handleSearch(searchQuery) ==
    IF IsBlank(searchQuery)
    THEN UNCHANGED <<isLoading, queryError, inflight, searches, pageVars>>
    ELSE /\ searches < MaxSearches
         /\ isLoading' = TRUE
         /\ queryError' = Null
         /\ isSearching' = TRUE
         /\ inflight' = TRUE
         /\ searches' = searches + 1
         /\ UNCHANGED <<results, showResults>>

\* Enter in the search box, or a click on the search button.
HandleKeyPress ==
    /\ ~showResults
    /\ ~isLoading
    /\ handleSearch(squery)
    /\ UNCHANGED squery
    /\ UNCHANGED <<sampleVars, extractVars, routerVars, geminiVars>>
    /\ UNCHANGED <<convertVars, proxyVars, clockVars, shareVars>>

\* handlePredefinedQuery(selectedQuery): setQuery, then handleSearch.
HandlePredefinedQuery(selectedQuery) ==
    /\ ~showResults
    /\ ~isLoading
    /\ squery' = selectedQuery
    /\ handleSearch(selectedQuery)
    /\ UNCHANGED <<sampleVars, extractVars, routerVars, geminiVars>>
    /\ UNCHANGED <<convertVars, proxyVars, clockVars, shareVars>>

\* The request succeeds: onResults(data), that is handleResults (setResults,
\* setShowResults(true), setIsSearching(false)), then isLoading is reset.  The
\* results view replaces SearchInterface, whose state is discarded: it is
\* kept here as it will be when the component is mounted again.
ResponseOk(data) ==
    /\ inflight
    /\ results' = data
    /\ showResults' = TRUE
    /\ isSearching' = FALSE
    /\ isLoading' = FALSE
    /\ queryError' = Null
    /\ inflight' = FALSE
    /\ squery' = <<>>
    /\ UNCHANGED searches
    /\ UNCHANGED <<sampleVars, extractVars, routerVars, geminiVars>>
    /\ UNCHANGED <<convertVars, proxyVars, clockVars, shareVars>>

\* The request fails: the catch block of callFastAPI resets isLoading and
\* keeps the message.  No callback of AppPage is called.
ResponseFails(message) ==
    /\ inflight
    /\ isLoading' = FALSE
    /\ queryError' = message
    /\ inflight' = FALSE
    /\ UNCHANGED <<squery, searches, pageVars>>
    /\ UNCHANGED <<sampleVars, extractVars, routerVars, geminiVars>>
    /\ UNCHANGED <<convertVars, proxyVars, clockVars, shareVars>>

\* Bug variant of HandleBackToSearch: the results are dropped as well.
HandleBackToSearchClearing ==
    /\ showResults
    /\ showResults' = FALSE
    /\ results' = Null
    /\ UNCHANGED isSearching
    /\ UNCHANGED searchVars
    /\ UNCHANGED <<sampleVars, extractVars, routerVars, geminiVars>>
    /\ UNCHANGED <<convertVars, proxyVars, clockVars, shareVars>>

\* handleBackToSearch: setShowResults(false); its button is rendered only in
\* the results view.
HandleBackToSearch ==
    /\ showResults
    /\ showResults' = FALSE
    /\ UNCHANGED <<results, isSearching>>
    /\ UNCHANGED searchVars
    /\ UNCHANGED <<sampleVars, extractVars, routerVars, geminiVars>>
    /\ UNCHANGED <<convertVars, proxyVars, clockVars, shareVars>>

NextPage ==
    \/ \E text \in TypedTexts : SetQuery(text)
    \/ HandleKeyPress
    \/ \E selectedQuery \in predefinedQueries : HandlePredefinedQuery(selectedQuery)
    \/ \E data \in ResultPool : ResponseOk(data)
    \/ \E message \in ErrorPool : ResponseFails(message)
    \/ HandleBackToSearch

SpecPage == InitPage /\ [][NextPage]_vars

\* C25: a search that has started is followed by isSearching being false
\* again once its request has finished, whether it succeeded or failed: with
\* no request in flight the loading overlay is down.
C25_OverlayDownWhenIdle ==
    ~inflight => ~isSearching

====
